---- MODULE Spec2Model ----
(***************************************************************************)
(* AI Study Hub (src/app.py): the response parsers, the quiz scoring and   *)
(* the Streamlit page's session state, modelled as a state machine.        *)
(*                                                                         *)
(* Text is a sequence of one-character strings, so that split, strip,      *)
(* replace, startswith and upper are computed character by character as    *)
(* Python computes them.                                                   *)
(***************************************************************************)
EXTENDS Integers, Sequences, FiniteSets, TLC

VARIABLES
    p_pc,       \* parser run: "input" before the call, "parsed" after it
    p_wf,       \* whether p_raw was written in the prompt's grammar
    p_src,      \* the records p_raw was written from (when p_wf)
    p_raw,      \* the model's reply handed to the parser
    p_out,      \* what the parser returned
    user,           \* st.session_state.user: the logged-in user's id, or NoUser
    db,             \* the "sessions" table of the store; a row's id is its position
    resumed_session,    \* st.session_state.resumed_session: <<>> (None) or <<row>>
    show_library,   \* st.session_state.show_library
    quiz_questions, \* st.session_state.quiz_questions
    quiz_answers,   \* st.session_state.quiz_answers: per question, None or a choice
    uploaded_file,  \* the file uploader's content: "none", "good" or "corrupt"
    run,            \* what the last page run did: its action and how it ended
    store_ops,      \* the store writes the last page run issued
    quiz_source     \* the session the quiz in play was generated from: <<>> or <<source>>

pvars == <<p_pc, p_wf, p_src, p_raw, p_out>>

avars == <<user, db, resumed_session, show_library, quiz_questions, quiz_answers,
           uploaded_file, run, store_ops, quiz_source>>

vars == <<pvars, avars>>

\* ------------------------------------------------------------------------
\* Python str primitives
\* ------------------------------------------------------------------------

NL == "\n"

\* str.strip() with no argument removes these (the ones the alphabet holds).
Whitespace == {" ", NL}

\* s[i:i+len(p)] == p
MatchAt(s, p, i) ==
    /\ i >= 1
    /\ i + Len(p) - 1 <= Len(s)
    /\ \A k \in 1..Len(p) : s[i + k - 1] = p[k]

\* s.startswith(p)
StartsWith(s, p) == MatchAt(s, p, 1)

\* s.find(p) + 1: the first position where p occurs, 0 when it does not.
RECURSIVE FindFrom(_, _, _)
FindFrom(s, p, i) ==
    IF i + Len(p) - 1 > Len(s) THEN 0
    ELSE IF MatchAt(s, p, i) THEN i
    ELSE FindFrom(s, p, i + 1)

Find(s, p) == FindFrom(s, p, 1)

\* p in s
Contains(s, p) == Find(s, p) > 0

\* s[i:] (1-based i)
Tail_(s, i) == SubSeq(s, i, Len(s))

\* s.split(sep): left to right, non-overlapping; always at least one piece.
RECURSIVE Split(_, _)
Split(s, sep) ==
    LET i == Find(s, sep)
    IN  IF i = 0 THEN <<s>>
        ELSE <<SubSeq(s, 1, i - 1)>> \o Split(Tail_(s, i + Len(sep)), sep)

\* s.split(sep, 1): the part before the first sep and everything after it.
Split1(s, sep) ==
    LET i == Find(s, sep)
    IN  IF i = 0 THEN <<s>>
        ELSE <<SubSeq(s, 1, i - 1), Tail_(s, i + Len(sep))>>

\* s.replace(old, ""): one left-to-right pass, what it builds is not rescanned.
RECURSIVE Remove(_, _)
Remove(s, old) ==
    LET i == Find(s, old)
    IN  IF i = 0 THEN s
        ELSE SubSeq(s, 1, i - 1) \o Remove(Tail_(s, i + Len(old)), old)

RECURSIVE LStrip(_)
LStrip(s) ==
    IF s # <<>> /\ Head(s) \in Whitespace THEN LStrip(Tail(s)) ELSE s

RECURSIVE RStrip(_)
RStrip(s) ==
    IF s # <<>> /\ s[Len(s)] \in Whitespace
    THEN RStrip(SubSeq(s, 1, Len(s) - 1))
    ELSE s

\* s.strip()
Strip(s) == RStrip(LStrip(s))

\* s.splitlines(): split at line breaks; no empty last line after a final break.
SplitLines(s) ==
    IF s = <<>> THEN <<>>
    ELSE LET parts == Split(s, <<NL>>)
         IN  IF parts[Len(parts)] = <<>>
             THEN SubSeq(parts, 1, Len(parts) - 1)
             ELSE parts

\* str.upper() / str.lower() on one character of the alphabet.
UpperChar(c) ==
    CASE c = "a" -> "A"
      [] c = "b" -> "B"
      [] c = "c" -> "C"
      [] c = "d" -> "D"
      [] c = "o" -> "O"
      [] c = "r" -> "R"
      [] c = "e" -> "E"
      [] c = "t" -> "T"
      [] c = "x" -> "X"
      [] c = "y" -> "Y"
      [] OTHER -> c

LowerChar(c) ==
    CASE c = "A" -> "a"
      [] c = "B" -> "b"
      [] c = "C" -> "c"
      [] c = "D" -> "d"
      [] c = "O" -> "o"
      [] c = "R" -> "r"
      [] c = "E" -> "e"
      [] c = "T" -> "t"
      [] c = "Q" -> "q"
      [] c = "X" -> "x"
      [] c = "Y" -> "y"
      [] OTHER -> c

Upper(s) == [k \in 1..Len(s) |-> UpperChar(s[k])]

Lower(s) == [k \in 1..Len(s) |-> LowerChar(s[k])]

\* "sep".join(parts)
RECURSIVE Join(_, _)
Join(parts, sep) ==
    IF parts = <<>> THEN <<>>
    ELSE IF Len(parts) = 1 THEN parts[1]
    ELSE parts[1] \o sep \o Join(Tail(parts), sep)

\* Python's None, where the code keeps None and text in the same place: a
\* one-element sequence whose element is no character.
NoneVal == <<"<None>">>

\* bool(v) for v a text or None
Truthy(v) == v # NoneVal /\ v # <<>>

\* ------------------------------------------------------------------------
\* The string literals of the parsers
\* ------------------------------------------------------------------------

Delim == <<"-", "-", "-">>

MarkA == <<"A", ":">>

MarkAnswer == <<"A", "n", "s", "w", "e", "r", ":">>

LabelQ == <<"Q", ":">>

LabelQuestion == <<"Q", "u", "e", "s", "t", "i", "o", "n", ":">>

\* ------------------------------------------------------------------------
\* parse_flashcards
\* ------------------------------------------------------------------------

\* The body of the for loop: the records one chunk appends (none or one).
\* A mutant: the final "if q_txt and a_txt" test left out.
FlashcardOfChunkNoCheck(chunk0) ==
    LET chunk == Strip(chunk0)
        mark  == IF Contains(chunk, MarkA) THEN MarkA
                 ELSE IF Contains(chunk, MarkAnswer) THEN MarkAnswer
                 ELSE <<>>
    IN  IF chunk = <<>> \/ mark = <<>> THEN <<>>
        ELSE LET parts == Split1(chunk, mark)
                 q_txt == Strip(Remove(Remove(parts[1], LabelQ), LabelQuestion))
                 a_txt == Strip(parts[2])
             IN  <<[q |-> q_txt, a |-> a_txt]>>

FlashcardOfChunk(chunk0) ==
    LET chunk == Strip(chunk0)
        mark  == IF Contains(chunk, MarkA) THEN MarkA
                 ELSE IF Contains(chunk, MarkAnswer) THEN MarkAnswer
                 ELSE <<>>
    IN  IF chunk = <<>> \/ mark = <<>> THEN <<>>
        ELSE LET parts == Split1(chunk, mark)
                 q_txt == Strip(Remove(Remove(parts[1], LabelQ), LabelQuestion))
                 a_txt == Strip(parts[2])
             IN  IF q_txt # <<>> /\ a_txt # <<>>
                 THEN <<[q |-> q_txt, a |-> a_txt]>>
                 ELSE <<>>

RECURSIVE FlashcardsOfChunks(_)
FlashcardsOfChunks(chunks) ==
    IF chunks = <<>> THEN <<>>
    ELSE FlashcardOfChunk(Head(chunks)) \o FlashcardsOfChunks(Tail(chunks))

parse_flashcards(raw) ==
    IF raw = <<>> THEN <<>>
    ELSE FlashcardsOfChunks(Split(raw, Delim))

\* ------------------------------------------------------------------------
\* parse_quiz
\* ------------------------------------------------------------------------

LabelCorrect == <<"c", "o", "r", "r", "e", "c", "t">>

OptionLabels == {<<"A", ")">>, <<"B", ")">>, <<"C", ")">>, <<"D", ")">>}

\* [ln.strip() for ln in chunk.splitlines() if ln.strip()]
RECURSIVE StrippedLines(_)
StrippedLines(lines) ==
    IF lines = <<>> THEN <<>>
    ELSE (IF Strip(Head(lines)) # <<>> THEN <<Strip(Head(lines))>> ELSE <<>>)
         \o StrippedLines(Tail(lines))

\* A mutant: the text after the FIRST colon instead of the last.
CorrectOfLineFirst(ln) ==
    LET parts == Split(ln, <<":">>)
    IN  Remove(Strip(parts[1]), <<".">>)

\* ln.split(":")[-1].strip().replace(".", "")
CorrectOfLine(ln) ==
    LET parts == Split(ln, <<":">>)
    IN  Remove(Strip(parts[Len(parts)]), <<".">>)

\* One pass of "for ln in lines" over the accumulator (q_text, options, correct).
QuizLineStep(acc, ln) ==
    IF StartsWith(ln, LabelQ)
    THEN [acc EXCEPT !.q_text = Strip(Tail_(ln, 3))]
    ELSE IF SubSeq(ln, 1, IF Len(ln) < 2 THEN Len(ln) ELSE 2) \in OptionLabels
    THEN [acc EXCEPT !.options = Append(@, ln)]
    ELSE IF StartsWith(Lower(ln), LabelCorrect)
    THEN [acc EXCEPT !.correct = CorrectOfLine(ln)]
    ELSE acc

RECURSIVE QuizScanLines(_, _)
QuizScanLines(acc, lines) ==
    IF lines = <<>> THEN acc
    ELSE QuizScanLines(QuizLineStep(acc, Head(lines)), Tail(lines))

\* The body of "for chunk in raw_text.split('---')": none or one question.
QuizOfChunk(chunk) ==
    IF Strip(chunk) = <<>> THEN <<>>
    ELSE LET lines == StrippedLines(SplitLines(chunk))
             acc   == QuizScanLines(
                          [q_text |-> NoneVal, options |-> <<>>, correct |-> NoneVal],
                          lines)
         IN  IF Truthy(acc.q_text) /\ acc.options # <<>> /\ Truthy(acc.correct)
             THEN <<[question |-> acc.q_text, options |-> acc.options,
                     correct |-> acc.correct]>>
             ELSE <<>>

RECURSIVE QuizOfChunks(_)
QuizOfChunks(chunks) ==
    IF chunks = <<>> THEN <<>>
    ELSE QuizOfChunk(Head(chunks)) \o QuizOfChunks(Tail(chunks))

parse_quiz(raw_text) == QuizOfChunks(Split(raw_text, Delim))

\* ------------------------------------------------------------------------
\* The page's session state (st.session_state) as a fresh browser session has it
\* ------------------------------------------------------------------------

NoUser == "none"

\* A run's record: the action that triggered it, how it ended, the flashcard
\* reply Generate Flashcards got, and the score Submit Quiz computed (-1: none).
RunOf(action, outcome, reply, score) ==
    [action |-> action, outcome |-> outcome, reply |-> reply, score |-> score]

\* The record of a run none of the properties is about (login, logout, the
\* library, a radio of the quiz, a file taken out of the uploader).
OtherRun == RunOf("page", "ok", <<>>, -1)

PageFresh ==
    /\ user = NoUser
    /\ resumed_session = <<>>
    /\ show_library = FALSE
    /\ quiz_questions = <<>>
    /\ quiz_answers = <<>>
    /\ uploaded_file = "none"
    /\ run = OtherRun
    /\ store_ops = <<>>
    /\ quiz_source = <<>>

\* ------------------------------------------------------------------------
\* Replies to parse: bounds and input sets
\* ------------------------------------------------------------------------

\* Most chunks (blocks) of a reply written in the grammar.
MaxChunks == 2

\* Most pieces of a reply not written in the grammar.
MaxPieces == 4

SP == <<" ">>

\* All sequences over S of length 0..n.
RECURSIVE SeqsUpTo(_, _)
SeqsUpTo(S, n) ==
    IF n = 0 THEN {<<>>}
    ELSE LET shorter == SeqsUpTo(S, n - 1)
         IN  shorter \cup {Append(t, x) : t \in shorter, x \in S}

RECURSIVE Flatten(_)
Flatten(parts) ==
    IF parts = <<>> THEN <<>> ELSE Head(parts) \o Flatten(Tail(parts))

\* Question texts of well-formed flashcards: "2+2?", "x y", "NA: x?".
FlashQTexts ==
    { <<"2", "+", "2", "?">>,
      <<"x", " ", "y">>,
      <<"N", "A", ":", " ", "x", "?">> }

\* Answer texts of well-formed flashcards: "4", "x y".
FlashATexts == { <<"4">>, <<"x", " ", "y">> }

\* "Q: <question>\nA: <answer>"
FlashChunkText(c) == LabelQ \o SP \o c.q \o <<NL>> \o MarkA \o SP \o c.a

\* The chunks joined by a "---" line, with or without one after the last.
FlashReplyText(src, trailing) ==
    Join([i \in 1..Len(src) |-> FlashChunkText(src[i])], <<NL>> \o Delim \o <<NL>>)
    \o (IF trailing /\ src # <<>> THEN <<NL>> \o Delim ELSE <<>>)

\* One whole card, as a piece of free text: "Q: x\nA: y".
CardPiece == FlashChunkText([q |-> <<"x">>, a |-> <<"y">>])

FreePieces ==
    { LabelQ, LabelQuestion, MarkA, MarkAnswer, Delim, SP, <<"x">>, CardPiece }

FreeTexts == { Flatten(t) : t \in SeqsUpTo(FreePieces, MaxPieces) }

\* ------------------------------------------------------------------------
\* parse_flashcards applied to a reply
\* ------------------------------------------------------------------------

FlashInit ==
    /\ PageFresh
    /\ db = <<>>
    /\ p_pc = "input"
    /\ p_out = <<>>
    /\ \/ /\ p_wf = TRUE
          /\ p_src \in SeqsUpTo([q : FlashQTexts, a : FlashATexts], MaxChunks)
          /\ \E trailing \in BOOLEAN : p_raw = FlashReplyText(p_src, trailing)
       \/ /\ p_wf = FALSE
          /\ p_src = <<>>
          /\ p_raw \in FreeTexts

ParseFlashcards ==
    /\ p_pc = "input"
    /\ p_out' = parse_flashcards(p_raw)
    /\ p_pc' = "parsed"
    /\ UNCHANGED <<p_wf, p_src, p_raw>>
    /\ UNCHANGED avars

FlashNext == ParseFlashcards

SpecFlash == FlashInit /\ [][FlashNext]_vars

\* ------------------------------------------------------------------------
\* parse_quiz applied to a reply
\* ------------------------------------------------------------------------

Letters == {"A", "B", "C", "D"}

\* Question texts of well-formed quiz blocks: "x", "Correct: D".
QuizQTexts == { <<"x">>, <<"C", "o", "r", "r", "e", "c", "t", ":", " ", "D">> }

\* The four option texts of a block: ("x","y","x","y") and
\* ("y", "Q: x", "Correct: A", "").
QuizOptTexts ==
    { << <<"x">>, <<"y">>, <<"x">>, <<"y">> >>,
      << <<"y">>, <<"Q", ":", " ", "x">>,
         <<"C", "o", "r", "r", "e", "c", "t", ":", " ", "A">>, <<>> >> }

QuizBlocks == [q : QuizQTexts, opts : QuizOptTexts, correct : Letters]

\* "A) <option>"
OptionLine(letter, text) == <<letter, ")">> \o SP \o text

\* "Q: ..\nA) ..\nB) ..\nC) ..\nD) ..\nCorrect: <letter>"
QuizBlockText(b) ==
    LabelQ \o SP \o b.q \o <<NL>>
    \o OptionLine("A", b.opts[1]) \o <<NL>>
    \o OptionLine("B", b.opts[2]) \o <<NL>>
    \o OptionLine("C", b.opts[3]) \o <<NL>>
    \o OptionLine("D", b.opts[4]) \o <<NL>>
    \o <<"C", "o", "r", "r", "e", "c", "t", ":">> \o SP \o <<b.correct>>

QuizReplyText(src, trailing) ==
    Join([i \in 1..Len(src) |-> QuizBlockText(src[i])], <<NL>> \o Delim \o <<NL>>)
    \o (IF trailing /\ src # <<>> THEN <<NL>> \o Delim ELSE <<>>)

\* Lines of a reply not written in the grammar: "Q: x", "A) x", the four
\* option lines at once, "Correct: B", "Correct: AB" and the "---" line.
QuizFreePieces ==
    { LabelQ \o SP \o <<"x", NL>>,
      OptionLine("A", <<"x">>) \o <<NL>>,
      OptionLine("A", <<"x">>) \o <<NL>> \o OptionLine("B", <<"y">>) \o <<NL>>
          \o OptionLine("C", <<"x">>) \o <<NL>> \o OptionLine("D", <<"y">>) \o <<NL>>,
      <<"C", "o", "r", "r", "e", "c", "t", ":", " ", "B", NL>>,
      <<"C", "o", "r", "r", "e", "c", "t", ":", " ", "A", "B", NL>>,
      Delim \o <<NL>> }

QuizFreeTexts == { Flatten(t) : t \in SeqsUpTo(QuizFreePieces, MaxPieces) }

QuizInit ==
    /\ PageFresh
    /\ db = <<>>
    /\ p_pc = "input"
    /\ p_out = <<>>
    /\ \/ /\ p_wf = TRUE
          /\ p_src \in SeqsUpTo(QuizBlocks, MaxChunks)
          /\ \E trailing \in BOOLEAN : p_raw = QuizReplyText(p_src, trailing)
       \/ /\ p_wf = FALSE
          /\ p_src = <<>>
          /\ p_raw \in QuizFreeTexts

ParseQuiz ==
    /\ p_pc = "input"
    /\ p_out' = parse_quiz(p_raw)
    /\ p_pc' = "parsed"
    /\ UNCHANGED <<p_wf, p_src, p_raw>>
    /\ UNCHANGED avars

QuizNext == ParseQuiz

SpecQuiz == QuizInit /\ [][QuizNext]_vars

\* ------------------------------------------------------------------------
\* Claims about the parsers
\* ------------------------------------------------------------------------

\* C1 (as claimed): a reply of N well-formed "Q: <question>" / "A: <answer>"
\* chunks separated by "---" parses to exactly N records, the i-th holding the
\* question and the answer of the i-th chunk.
C1_WellFormedParsesToItsChunks ==
    (p_pc = "parsed" /\ p_wf) => p_out = p_src

\* The chunks of the reply, as the "---" delimiter cuts them.
ChunksOfRaw == Split(p_raw, Delim)

HasAnswerMarker(chunk) == Contains(chunk, MarkA) \/ Contains(chunk, MarkAnswer)

\* The text before the first marker, labels and surrounding blanks removed, and
\* the text after it: "A:" is looked for first, "Answer:" only without it.
MarkerOf(chunk) == IF Contains(chunk, MarkA) THEN MarkA ELSE MarkAnswer

QuestionPart(chunk) ==
    LET c == Strip(chunk)
    IN  Strip(Remove(Remove(SubSeq(c, 1, Find(c, MarkerOf(c)) - 1), LabelQ),
                     LabelQuestion))

AnswerPart(chunk) ==
    LET c == Strip(chunk)
    IN  Strip(Tail_(c, Find(c, MarkerOf(c)) + Len(MarkerOf(c))))

\* A chunk that is to contribute a record.
GoodChunk(chunk) ==
    /\ HasAnswerMarker(chunk)
    /\ QuestionPart(chunk) # <<>>
    /\ AnswerPart(chunk) # <<>>

\* The positions of the good chunks, in order.
GoodIndices(chunks) == { i \in 1..Len(chunks) : GoodChunk(chunks[i]) }

\* The k-th smallest element of a finite set of numbers.
KthOf(S, k) == CHOOSE x \in S : Cardinality({y \in S : y <= x}) = k

\* C2: for any reply, a chunk with neither "A:" nor "Answer:" and a chunk whose
\* question or answer part is empty contribute no record and do not stop the
\* other chunks from being parsed: the records are exactly those of the other
\* chunks, in order, and every record has a non-empty question and answer.
C2_BadChunksDroppedOthersKept ==
    p_pc = "parsed" =>
        LET chunks == ChunksOfRaw
            good   == GoodIndices(chunks)
        IN  /\ Len(p_out) = Cardinality(good)
            /\ \A k \in 1..Len(p_out) :
                /\ p_out[k].q # <<>>
                /\ p_out[k].a # <<>>
                /\ p_out[k].q = QuestionPart(chunks[KthOf(good, k)])
                /\ p_out[k].a = AnswerPart(chunks[KthOf(good, k)])

\* A reply with a chunk without marker and a chunk with an empty part, both
\* before a chunk that gives a record.
C2_Witness ==
    /\ p_pc = "parsed"
    /\ ~p_wf
    /\ LET chunks == ChunksOfRaw
       IN  \E i, j \in 1..Len(chunks) :
            /\ i < j
            /\ Strip(chunks[i]) # <<>>
            /\ \/ ~HasAnswerMarker(chunks[i])
               \/ (HasAnswerMarker(chunks[i]) /\ QuestionPart(chunks[i]) = <<>>)
            /\ GoodChunk(chunks[j])
    /\ Len(p_out) >= 1

\* The option lines a well-formed block was written with, as the parser keeps
\* a line: stripped.
ExpectedOptions(b) ==
    << Strip(OptionLine("A", b.opts[1])), Strip(OptionLine("B", b.opts[2])),
       Strip(OptionLine("C", b.opts[3])), Strip(OptionLine("D", b.opts[4])) >>

\* C3: a reply of N well-formed quiz blocks (a "Q:" line with a question, the
\* option lines A) B) C) D), a "Correct: <letter>" line) separated by "---"
\* parses to exactly N questions, in block order, each with its 4 options in
\* emitted order and a correct letter among A, B, C, D.
C3_WellFormedQuizParsed ==
    (p_pc = "parsed" /\ p_wf) =>
        /\ Len(p_out) = Len(p_src)
        /\ \A i \in 1..Len(p_out) :
            /\ p_out[i].question = p_src[i].q
            /\ Len(p_out[i].options) = 4
            /\ p_out[i].options = ExpectedOptions(p_src[i])
            /\ p_out[i].correct = <<p_src[i].correct>>
            /\ p_src[i].correct \in Letters

\* Two blocks parsed, the second's question looking like a "Correct:" line.
C3_Witness ==
    /\ p_pc = "parsed"
    /\ p_wf
    /\ Len(p_src) = 2
    /\ Len(p_out) = 2
    /\ p_src[1].correct # p_src[2].correct
    /\ p_src[2].q # <<"x">>

\* ------------------------------------------------------------------------
\* The session store (the Supabase "sessions" table) and its rows
\* ------------------------------------------------------------------------

Users == {"u1", "u2"}

\* Most rows the store holds.
MaxSessions == 1

\* A row without an "id" key: row.get("id") is None.
NoId == 0

\* A NULL score; a saved score is the percentage str(percent) writes.
NullScore == -1

\* The row the Generate Flashcards handler builds (file_name and timestamp,
\* which nothing but the display reads, are left out).
session_row(uid, flashcards_text) ==
    [id |-> NoId, user_id |-> uid, flashcards |-> flashcards_text,
     score |-> NullScore, adaptive_data |-> NoneVal]

\* A row as the page holds it in resumed_session: the keys the page reads
\* from it (adaptive_data is only ever written to the store).
ActiveRow(row) ==
    [id |-> row.id, user_id |-> row.user_id, flashcards |-> row.flashcards,
     score |-> row.score]

\* The table after insert(session_row): the store assigns the next id.
DbInsert(table, row) == Append(table, [row EXCEPT !.id = Len(table) + 1])

\* select * where user_id = uid order by id desc, of the rows 1..n.
RECURSIVE RowsOfUserDesc(_, _, _)
RowsOfUserDesc(table, uid, n) ==
    IF n = 0 THEN <<>>
    ELSE (IF table[n].user_id = uid THEN <<ActiveRow(table[n])>> ELSE <<>>)
         \o RowsOfUserDesc(table, uid, n - 1)

\* fetch_sessions: the user's rows, newest first; [] when the store fails.
fetch_sessions(user_id, store_ok) ==
    IF store_ok THEN RowsOfUserDesc(db, user_id, Len(db)) ELSE <<>>

\* set_latest_session_active_if_missing, run by every page run that reaches it:
\* the value of resumed_session after it, given the value before.
set_latest_session_active_if_missing(rs, user_id, store_ok) ==
    IF rs # <<>> THEN rs
    ELSE LET latest == fetch_sessions(user_id, store_ok)
         IN  IF latest # <<>> THEN <<latest[1]>> ELSE rs

\* update(fields).eq("id", sid).eq("user_id", uid): the rows both filters keep.
\* uid = NoUser stands for an update without the user_id filter.
DbUpdateMatches(table, sid, uid) ==
    { i \in 1..Len(table) :
        /\ table[i].id = sid
        /\ (uid # NoUser => table[i].user_id = uid) }

\* A store write as the page issues it.
StoreOp(op, sid, uid) == [op |-> op, id |-> sid, user_filter |-> uid]

\* ------------------------------------------------------------------------
\* The model's replies the page may get
\* ------------------------------------------------------------------------

\* Flashcard replies: "Q: x\nA: y\n---", "Q: 2+2?\nA: 4\n---\nQ: x y\nA: 4\n---"
\* and a reply with no card in it, "x".
FlashReply1 == FlashReplyText(<<[q |-> <<"x">>, a |-> <<"y">>]>>, TRUE)

FlashReply2 ==
    FlashReplyText(<<[q |-> <<"2", "+", "2", "?">>, a |-> <<"4">>],
                     [q |-> <<"x", " ", "y">>, a |-> <<"4">>]>>, TRUE)

FlashReplies == {FlashReply2, <<"x">>}

\* fetch_sessions is only called by the auto-pick when no session is active:
\* the answers of the store that a run with active session rs can read.
FetchAnswers(rs) == IF rs = <<>> THEN BOOLEAN ELSE {TRUE}

\* ------------------------------------------------------------------------
\* Page runs: login, logout, upload
\* ------------------------------------------------------------------------

\* extract_text on the uploaded file: whether the library call raises.
extract_text_raises(file) == file = "corrupt"

\* A run of a logged-in user that gets past the upload section (lines 79-146).
PastUpload == user # NoUser /\ ~extract_text_raises(uploaded_file)

\* The quiz-play loop (lines 442-451) on a run where no radio holds a choice.
NoChoices(qs) == [i \in 1..Len(qs) |-> NoneVal]

\* The quiz-play loop on a run of the upload section: the radios keep their
\* choices when the run before rendered them; a run that stopped at line 143
\* did not, and the loop then finds them without a choice.
AnswersAfterRun ==
    IF extract_text_raises(uploaded_file) THEN NoChoices(quiz_questions)
    ELSE quiz_answers

\* Login button: sign_in, session_state.user = user, rerun. The rerun is a
\* full page run: auto-pick, and the quiz radios (not rendered on the login
\* page, so without a choice) written to quiz_answers.
Login(u) ==
    /\ user = NoUser
    /\ user' = u
    /\ \E store_ok \in FetchAnswers(resumed_session) :
        resumed_session' =
            set_latest_session_active_if_missing(resumed_session, u, store_ok)
    /\ quiz_answers' = NoChoices(quiz_questions)
    /\ run' = OtherRun
    /\ store_ops' = <<>>
    /\ UNCHANGED <<db, show_library, quiz_questions, uploaded_file, quiz_source>>

\* Logout button (line 102, before the upload section): sign_out, user = None,
\* rerun, which shows the login page and stops; the uploader is not rendered.
Logout ==
    /\ user # NoUser
    /\ user' = NoUser
    /\ uploaded_file' = "none"
    /\ run' = OtherRun
    /\ store_ops' = <<>>
    /\ UNCHANGED <<db, resumed_session, show_library, quiz_questions,
                   quiz_answers, quiz_source>>

\* A file is put into the uploader: the run calls extract_text (line 143), with
\* no handler around it; a run that gets past it goes on to the auto-pick.
UploadFile(file) ==
    /\ user # NoUser
    /\ uploaded_file' = file
    /\ store_ops' = <<>>
    /\ IF extract_text_raises(file)
       THEN /\ run' = RunOf("upload", "crashed", <<>>, -1)
            /\ UNCHANGED resumed_session
            /\ UNCHANGED quiz_answers
       ELSE /\ run' = RunOf("upload", "ok", <<>>, -1)
            /\ \E store_ok \in FetchAnswers(resumed_session) :
                resumed_session' =
                    set_latest_session_active_if_missing(resumed_session, user, store_ok)
            /\ quiz_answers' = AnswersAfterRun
    /\ UNCHANGED <<db, user, show_library, quiz_questions, quiz_source>>

\* The file is taken out of the uploader: an ordinary run.
RemoveFile ==
    /\ user # NoUser
    /\ uploaded_file # "none"
    /\ uploaded_file' = "none"
    /\ run' = OtherRun
    /\ store_ops' = <<>>
    /\ \E store_ok \in FetchAnswers(resumed_session) :
        resumed_session' =
            set_latest_session_active_if_missing(resumed_session, user, store_ok)
    /\ quiz_answers' = AnswersAfterRun
    /\ UNCHANGED <<db, user, show_library, quiz_questions, quiz_source>>

\* ------------------------------------------------------------------------
\* Generate Flashcards (lines 221-278)
\* ------------------------------------------------------------------------

\* How insert_session_to_db ends: "row" (the inserted row comes back, with its
\* id), "nodata" (inserted, the response carries no data: session_row itself is
\* returned) or "error" (the call raises; nothing inserted).
InsertOutcomes == {"row", "nodata", "error"}

\* What the environment answers a Generate Flashcards run with: no input
\* text; the completion call raises; a reply without a card; a reply with
\* cards and the insert's outcome. An answer the run does not read is fixed.
GenerateAnswer(has_input, model_ok, reply, outcome) ==
    [has_input |-> has_input, model_ok |-> model_ok, reply |-> reply,
     outcome |-> outcome]

GenerateAnswers ==
    { GenerateAnswer(FALSE, TRUE, <<>>, "row"),
      GenerateAnswer(TRUE, FALSE, <<>>, "row"),
      GenerateAnswer(TRUE, TRUE, <<"x">>, "row") }
    \cup { GenerateAnswer(TRUE, TRUE, FlashReply2, outcome) :
             outcome \in InsertOutcomes }

\* The table after the insert, by outcome.
DbAfterInsert(table, row, outcome) ==
    IF outcome = "error" THEN table ELSE DbInsert(table, row)

\* What the handler makes the active session, by outcome (lines 271-278).
ActiveAfterInsert(table, row, outcome) ==
    IF outcome = "row" THEN <<ActiveRow([row EXCEPT !.id = Len(table) + 1])>>
    ELSE <<ActiveRow(row)>>

\* parse_flashcards on each text a run can hand it (computed once).
ParsedFlashcards ==
    [raw \in FlashReplies \cup {<<>>} |-> parse_flashcards(raw)]

\* has_input: input_text is not empty. model_ok: the completion call returned;
\* reply: its content. store_ok: the auto-pick's fetch succeeds.
GenerateFlashcards(has_input, model_ok, reply, outcome, store_ok) ==
    /\ PastUpload
    /\ LET flashcards_text == IF model_ok THEN reply ELSE <<>>
           cards == ParsedFlashcards[flashcards_text]
           row   == session_row(user, flashcards_text)
       IN  IF ~has_input
           THEN /\ run' = RunOf("generate", "no_input", <<>>, -1)
                /\ store_ops' = <<>>
                /\ db' = db
                /\ resumed_session' =
                    set_latest_session_active_if_missing(resumed_session, user, store_ok)
           ELSE IF cards = <<>>
           THEN /\ run' = RunOf("generate",
                                IF model_ok THEN "parse_empty" ELSE "model_failed",
                                flashcards_text, -1)
                /\ store_ops' = <<>>
                /\ db' = db
                /\ resumed_session' =
                    set_latest_session_active_if_missing(resumed_session, user, store_ok)
           ELSE /\ (outcome # "error" => Len(db) < MaxSessions)
                /\ run' = RunOf("generate",
                                IF outcome = "error" THEN "saved_locally" ELSE "saved",
                                flashcards_text, -1)
                /\ store_ops' = <<StoreOp("insert", NoId, user)>>
                /\ db' = DbAfterInsert(db, row, outcome)
                /\ resumed_session' =
                    set_latest_session_active_if_missing(
                        ActiveAfterInsert(db, row, outcome), user, store_ok)
    /\ UNCHANGED <<user, show_library, quiz_questions, quiz_answers,
                   uploaded_file, quiz_source>>

\* ------------------------------------------------------------------------
\* Study library (lines 311-347)
\* ------------------------------------------------------------------------

\* "Open / Close Library" (line 318): the flag is flipped.
ToggleLibrary ==
    /\ PastUpload
    /\ show_library' = ~show_library
    /\ run' = OtherRun
    /\ store_ops' = <<>>
    /\ \E store_ok \in FetchAnswers(resumed_session) :
        resumed_session' =
            set_latest_session_active_if_missing(resumed_session, user, store_ok)
    /\ UNCHANGED <<db, user, quiz_questions, quiz_answers, uploaded_file, quiz_source>>

\* "Resume" and "Set Active (no reload)" on a listed session: the list is the
\* run's own fetch_sessions(user_id), the session the fetched row.
Resume(k) ==
    /\ PastUpload
    /\ show_library
    /\ LET sessions == fetch_sessions(user, TRUE)
       IN  /\ k \in 1..Len(sessions)
           /\ resumed_session' = <<sessions[k]>>
    /\ run' = OtherRun
    /\ store_ops' = <<>>
    /\ UNCHANGED <<db, user, show_library, quiz_questions, quiz_answers,
                   uploaded_file, quiz_source>>

\* ------------------------------------------------------------------------
\* Quiz mode (lines 412-476)
\* ------------------------------------------------------------------------

Line(text) == text \o <<NL>>

\* The quiz reply: a well-formed block ("Q: x", options x y x y, "Correct: B")
\* and a block that drifts from the grammar ("Q: y", "A) y", "correct: a.");
\* and a reply with no block in it, "x".
QuizReply1 ==
    Line(QuizBlockText([q |-> <<"x">>,
                        opts |-> << <<"x">>, <<"y">>, <<"x">>, <<"y">> >>,
                        correct |-> "B"]))
    \o Line(Delim)
    \o Line(<<"Q", ":", " ", "y">>) \o Line(<<"A", ")", " ", "y">>)
    \o Line(<<"c", "o", "r", "r", "e", "c", "t", ":", " ", "a", ".">>)

QuizReplies == {QuizReply1, <<"x">>}

\* What the environment answers a Start AI Quiz run with: the completion call
\* raises, or one of the replies.
QuizAnswers ==
    { [model_ok |-> FALSE, reply |-> <<>>] }
    \cup { [model_ok |-> TRUE, reply |-> r] : r \in QuizReplies }

\* generate_quiz_from_flashcards: the reply, "" when the call raises.
generate_quiz_from_flashcards(model_ok, reply) == IF model_ok THEN reply ELSE <<>>

\* parse_quiz on each text a run can hand it (computed once).
ParsedQuiz == [raw \in QuizReplies \cup {<<>>} |-> parse_quiz(raw)]

\* A mutant: the parsed list is stored without the "if qs" test.
QuizAfterStartUnguarded(old_qs, qs) == qs

\* "if qs:" (lines 430-436): the quiz in play after the handler.
QuizAfterStart(old_qs, qs) == IF qs # <<>> THEN qs ELSE old_qs

\* What identifies the session a quiz was generated from: the row's id, owner
\* and flashcards, which is the text the quiz prompt was built from.
SourceOf(sess) ==
    [id |-> sess.id, user_id |-> sess.user_id, flashcards |-> sess.flashcards]

\* Start AI Quiz. The button is there when the run before had an active session.
StartQuiz(model_ok, reply) ==
    /\ PastUpload
    /\ resumed_session # <<>>
    /\ LET active_sess == resumed_session[1]
           text == active_sess.flashcards
       IN  IF Strip(text) = <<>>
           THEN /\ run' = RunOf("start_quiz", "no_flashcards", <<>>, -1)
                /\ UNCHANGED <<quiz_questions, quiz_answers, quiz_source>>
           ELSE LET raw_quiz == generate_quiz_from_flashcards(model_ok, reply)
                    qs == ParsedQuiz[raw_quiz]
                    started == QuizAfterStart(quiz_questions, qs)
                IN  /\ quiz_questions' = started
                    /\ quiz_answers' =
                        IF qs # <<>> THEN NoChoices(started) ELSE quiz_answers
                    /\ quiz_source' =
                        IF qs # <<>> THEN <<SourceOf(active_sess)>> ELSE quiz_source
                    /\ run' = RunOf("start_quiz",
                                    IF qs # <<>> THEN "started"
                                    ELSE IF model_ok THEN "parse_empty"
                                    ELSE "model_failed",
                                    <<>>, -1)
    /\ store_ops' = <<>>
    /\ UNCHANGED <<db, user, resumed_session, show_library, uploaded_file>>

\* A radio of the quiz is clicked: the run's loop stores the choice.
SelectAnswer(i, k) ==
    /\ PastUpload
    /\ i \in 1..Len(quiz_questions)
    /\ k \in 1..Len(quiz_questions[i].options)
    /\ quiz_answers' = [quiz_answers EXCEPT ![i] = quiz_questions[i].options[k]]
    /\ run' = OtherRun
    /\ store_ops' = <<>>
    /\ UNCHANGED <<db, user, resumed_session, show_library, quiz_questions,
                   uploaded_file, quiz_source>>

\* q["correct"].strip().upper().replace(".", "")
correct_letter(q) == Remove(Upper(Strip(q.correct)), <<".">>)

\* A mutant: the answer compared with the letter for equality.
AnswerCountsEqual(ans, q) == ans = correct_letter(q)

\* ans.startswith(correct_letter)
AnswerCounts(ans, q) == StartsWith(ans, correct_letter(q))

\* The scoring loop over questions 1..n (lines 455-459), every answer a string.
RECURSIVE ScoreUpTo(_, _, _)
ScoreUpTo(qs, answers, n) ==
    IF n = 0 THEN 0
    ELSE ScoreUpTo(qs, answers, n - 1)
         + (IF AnswerCounts(answers[n], qs[n]) THEN 1 ELSE 0)

\* ans.startswith on None raises AttributeError: the loop does not finish.
ScoringRaises(qs, answers) == \E i \in 1..Len(qs) : answers[i] = NoneVal

\* A mutant: the score times 100, not divided by the total.
PercentUndivided(score, total) == 100 * score

\* round((score / total) * 100): to the nearest integer, a tie to the even one
\* (the quotients of the totals modelled are exact in binary where they tie).
Percent(score, total) ==
    LET n == 100 * score
        q == n \div total
        r == n % total
    IN  IF 2 * r < total THEN q
        ELSE IF 2 * r > total THEN q + 1
        ELSE IF q % 2 = 0 THEN q ELSE q + 1

\* The table after update({"score": ..}) on the rows the filters keep.
DbSetScore(table, rows, percent) ==
    [i \in 1..Len(table) |->
        IF i \in rows THEN [table[i] EXCEPT !.score = percent] ELSE table[i]]

\* Submit Quiz (lines 453-476). update_ok: the store call does not raise.
SubmitQuiz(update_ok) ==
    /\ PastUpload
    /\ quiz_questions # <<>>
    /\ LET qs == quiz_questions
           total == Len(qs)
       IN  IF ScoringRaises(qs, quiz_answers)
           THEN /\ run' = RunOf("submit", "crashed", <<>>, -1)
                /\ store_ops' = <<>>
                /\ db' = db
           ELSE LET score == ScoreUpTo(qs, quiz_answers, total)
                    percent == Percent(score, total)
                    sid == IF resumed_session = <<>> THEN NoId
                           ELSE resumed_session[1].id
                IN  IF resumed_session = <<>>
                    THEN /\ run' = RunOf("submit", "save_failed", <<>>, score)
                         /\ store_ops' = <<>>
                         /\ db' = db
                    ELSE IF sid # NoId
                    THEN /\ store_ops' = <<StoreOp("update", sid, user)>>
                         /\ IF update_ok
                            THEN /\ db' = DbSetScore(db, DbUpdateMatches(db, sid, user),
                                                     percent)
                                 /\ run' = RunOf("submit", "saved", <<>>, score)
                            ELSE /\ db' = db
                                 /\ run' = RunOf("submit", "save_failed", <<>>, score)
                    ELSE /\ store_ops' = <<>>
                         /\ db' = db
                         /\ run' = RunOf("submit", "local_only", <<>>, score)
    /\ UNCHANGED <<user, resumed_session, show_library, quiz_questions,
                   quiz_answers, uploaded_file, quiz_source>>

\* ------------------------------------------------------------------------
\* Adaptive flashcards (lines 481-565)
\* ------------------------------------------------------------------------

\* Adaptive replies: "Q: y\nA: x\n---" and a card whose answer holds "A:" again,
\* "Q: x\nA: NA: y".
AdaptiveReply1 == FlashReplyText(<<[q |-> <<"y">>, a |-> <<"x">>]>>, TRUE)

AdaptiveReply2 ==
    FlashChunkText([q |-> <<"x">>, a |-> <<"N", "A", ":", " ", "y">>])

AdaptiveReplies == {AdaptiveReply1, AdaptiveReply2}

\* What the environment answers a Generate Adaptive Flashcards run with: the
\* completion call raises, or a reply and whether the store takes the update.
AdaptiveAnswers ==
    { [model_ok |-> FALSE, reply |-> <<>>, update_ok |-> TRUE],
      [model_ok |-> TRUE, reply |-> AdaptiveReply2, update_ok |-> TRUE],
      [model_ok |-> TRUE, reply |-> AdaptiveReply1, update_ok |-> TRUE],
      [model_ok |-> TRUE, reply |-> AdaptiveReply1, update_ok |-> FALSE] }

\* generate_adaptive_flashcards: "" without flashcards or when the call raises.
generate_adaptive_flashcards(session_data, model_ok, reply) ==
    IF session_data.flashcards = <<>> THEN <<>>
    ELSE IF model_ok THEN reply ELSE <<>>

\* "q, a = c.split('A:')" (line 557) raises ValueError unless the chunk holds
\* "A:" exactly once.
AdaptiveUnpackRaises(adaptive_text) ==
    LET cards == Split(adaptive_text, Delim)
    IN  \E i \in 1..Len(cards) :
            Contains(cards[i], MarkA) /\ Len(Split(cards[i], MarkA)) # 2

\* AdaptiveUnpackRaises on each reply a run can get (computed once).
UnpackRaises == [raw \in AdaptiveReplies |-> AdaptiveUnpackRaises(raw)]

\* The filter of the adaptive_data update (lines 560-562): .eq("id", ..) alone.
AdaptiveUpdateOp(sess) == StoreOp("update", sess.id, NoUser)

DbSetAdaptive(table, rows, adaptive_text) ==
    [i \in 1..Len(table) |->
        IF i \in rows THEN [table[i] EXCEPT !.adaptive_data = adaptive_text]
        ELSE table[i]]

\* Generate Adaptive Flashcards. An update on a row without id (.eq("id", None))
\* is refused by the store, as is one when update_ok is false.
GenerateAdaptive(model_ok, reply, update_ok, store_ok) ==
    /\ PastUpload
    /\ LET active == set_latest_session_active_if_missing(resumed_session, user,
                                                          store_ok)
       IN  /\ resumed_session' = active
           /\ IF active = <<>>
              THEN /\ run' = RunOf("adaptive", "no_session", <<>>, -1)
                   /\ store_ops' = <<>>
                   /\ db' = db
              ELSE LET sess == active[1]
                       adaptive_text ==
                           generate_adaptive_flashcards(sess, model_ok, reply)
                       op == AdaptiveUpdateOp(sess)
                   IN  IF adaptive_text = <<>>
                       THEN /\ run' = RunOf("adaptive", "model_failed", <<>>, -1)
                            /\ store_ops' = <<>>
                            /\ db' = db
                       ELSE IF UnpackRaises[adaptive_text]
                       THEN /\ run' = RunOf("adaptive", "crashed", <<>>, -1)
                            /\ store_ops' = <<>>
                            /\ db' = db
                       ELSE /\ store_ops' = <<op>>
                            /\ IF update_ok /\ sess.id # NoId
                               THEN /\ db' = DbSetAdaptive(
                                               db,
                                               DbUpdateMatches(db, op.id, op.user_filter),
                                               adaptive_text)
                                    /\ run' = RunOf("adaptive", "saved", <<>>, -1)
                               ELSE /\ db' = db
                                    /\ run' = RunOf("adaptive", "save_failed", <<>>, -1)
    /\ UNCHANGED <<user, show_library, quiz_questions, quiz_answers,
                   uploaded_file, quiz_source>>

\* ------------------------------------------------------------------------
\* The page: a fresh browser session against a store that may hold rows
\* ------------------------------------------------------------------------

\* The store as the browser session finds it: empty, or with one session that
\* an earlier visit of u1 left.
InitialTables == { <<>>, <<[session_row("u1", FlashReply1) EXCEPT !.id = 1]>> }

Init ==
    /\ PageFresh
    /\ db \in InitialTables
    /\ p_pc = "input"
    /\ p_wf = FALSE
    /\ p_src = <<>>
    /\ p_raw = <<>>
    /\ p_out = <<>>

Next ==
    \/ \E u \in Users : Login(u)
    \/ Logout
    \/ \E x \in GenerateAnswers, store_ok \in FetchAnswers(resumed_session) :
        GenerateFlashcards(x.has_input, x.model_ok, x.reply, x.outcome, store_ok)
    \/ ToggleLibrary
    \/ \E k \in 1..MaxSessions : Resume(k)
    \/ \E x \in QuizAnswers : StartQuiz(x.model_ok, x.reply)
    \/ \E i \in 1..2, k \in 1..4 : SelectAnswer(i, k)
    \/ \E update_ok \in BOOLEAN : SubmitQuiz(update_ok)
    \/ \E x \in AdaptiveAnswers, store_ok \in FetchAnswers(resumed_session) :
        GenerateAdaptive(x.model_ok, x.reply, x.update_ok, store_ok)

Spec == Init /\ [][Next /\ UNCHANGED pvars]_vars

\* ------------------------------------------------------------------------
\* The upload section in use: the runs up to the library, with a file put into
\* and taken out of the uploader
\* ------------------------------------------------------------------------

\* What the uploader can hold: a file extract_text reads, and one of a
\* supported type whose content the library call cannot read.
Files == {"good", "corrupt"}

UploadNext ==
    \/ \E u \in Users : Login(u)
    \/ Logout
    \/ \E file \in Files : UploadFile(file)
    \/ RemoveFile
    \/ \E x \in GenerateAnswers, store_ok \in FetchAnswers(resumed_session) :
        GenerateFlashcards(x.has_input, x.model_ok, x.reply, x.outcome, store_ok)
    \/ ToggleLibrary
    \/ \E k \in 1..MaxSessions : Resume(k)

SpecUpload == Init /\ [][UploadNext /\ UNCHANGED pvars]_vars

\* ------------------------------------------------------------------------
\* Submit Quiz
\* ------------------------------------------------------------------------

\* The questions of the quiz in play whose radio holds no choice.
Unanswered == { i \in 1..Len(quiz_questions) : quiz_answers[i] = NoneVal }

\* C4: Submit Quiz with some or all questions unanswered completes its scoring,
\* counts no unanswered question as correct, and scores 0 when no question is
\* answered.
C4_UnansweredSubmitScores ==
    (run.action = "submit" /\ Unanswered # {}) =>
        /\ run.outcome # "crashed"
        /\ run.score >= 0
        /\ run.score <= Len(quiz_questions) - Cardinality(Unanswered)

\* The selected option is the one whose label is the question's correct letter.
IsCorrectOption(q, ans) ==
    /\ ans # NoneVal
    /\ Len(q.correct) = 1
    /\ \E k \in 1..Len(q.options) :
        /\ ans = q.options[k]
        /\ q.options[k][1] = UpperChar(q.correct[1])

AllAnswersCorrect ==
    \A i \in 1..Len(quiz_questions) :
        IsCorrectOption(quiz_questions[i], quiz_answers[i])

\* C5: when every question's selected option is its correct option, Submit Quiz
\* yields score == total.
C5_AllCorrectScoresFull ==
    (run.action = "submit" /\ AllAnswersCorrect) =>
        /\ run.outcome # "crashed"
        /\ run.score = Len(quiz_questions)

\* A submit of the two-question quiz with both correct options selected, the
\* second question's stored letter being the lower-case "a".
C5_Witness ==
    /\ run.action = "submit"
    /\ Len(quiz_questions) = 2
    /\ AllAnswersCorrect
    /\ quiz_questions[2].correct = <<"a">>
    /\ run.score = 2

\* The submit run wrote a score to a stored row.
ScoreWritten ==
    /\ run.action = "submit"
    /\ run.outcome = "saved"
    /\ store_ops # <<>>
    /\ DbUpdateMatches(db, store_ops[1].id, store_ops[1].user_filter) # {}

\* C6: whenever a score is written to a stored session, the quiz graded was
\* generated from that session's flashcards: the row written is the session the
\* quiz in play was generated from.
C6_ScoreWrittenToQuizSource ==
    ScoreWritten =>
        /\ quiz_source # <<>>
        /\ quiz_source[1].id = store_ops[1].id
        /\ \A i \in DbUpdateMatches(db, store_ops[1].id, store_ops[1].user_filter) :
            db[i].flashcards = quiz_source[1].flashcards

\* C7: after a Generate Flashcards run whose reply parses to a card, the active
\* session holds that reply as its flashcards whether or not the insert
\* succeeded; on insert failure it is the local record without an id, and a
\* Submit Quiz on a session without an id reports "local only" and issues no
\* store update.
C7_InsertFallbackKeepsSession ==
    /\ (run.action = "generate" /\ run.outcome \in {"saved", "saved_locally"}) =>
          /\ resumed_session # <<>>
          /\ resumed_session[1].flashcards = run.reply
          /\ (run.outcome = "saved_locally" => resumed_session[1].id = NoId)
    /\ (run.action = "submit" /\ resumed_session # <<>>
        /\ resumed_session[1].id = NoId) =>
          /\ run.outcome = "local_only"
          /\ store_ops = <<>>

\* C8: a failure of extract_text on the uploaded file is caught where it is
\* called and shown to the user; the page run is not aborted by it.
C8_ExtractionFailureCaught ==
    (run.action = "upload" /\ extract_text_raises(uploaded_file)) =>
        run.outcome # "crashed"

\* ------------------------------------------------------------------------
\* Generation failures
\* ------------------------------------------------------------------------

\* The run was a Generate Flashcards or Start AI Quiz whose model call failed or
\* whose reply parsed to no record.
GenerationFailed ==
    /\ run.action \in {"generate", "start_quiz"}
    /\ run.outcome \in {"model_failed", "parse_empty"}

\* The quiz in play and the store as a step leaves them alone.
QuizAndStoreUntouched ==
    /\ quiz_questions' = quiz_questions
    /\ quiz_answers' = quiz_answers
    /\ db' = db
    /\ store_ops' = <<>>

\* C9 as stated: a failed generation leaves the active session, the quiz
\* questions and the quiz answers exactly as they were, and issues no store
\* insert or update.
C9_FailureLeavesStateUnchanged ==
    [][GenerationFailed' =>
          /\ resumed_session' = resumed_session
          /\ QuizAndStoreUntouched]_vars

\* The user's latest stored session, as the auto-pick of the page run finds it.
IsLatestStoredOf(sess, uid) ==
    /\ \E i \in 1..Len(db) : ActiveRow(db[i]) = sess
    /\ sess.user_id = uid
    /\ \A i \in 1..Len(db) : db[i].user_id = uid => db[i].id <= sess.id

\* C9, amended: a failed generation leaves the quiz questions and answers as
\* they were and issues no store insert or update; the active session is what
\* it was, except that a run that starts without one may end with the user's
\* latest stored session picked as the active one.
C9_FailureLeavesStateUnchangedButAutoPick ==
    [][GenerationFailed' =>
          /\ QuizAndStoreUntouched
          /\ \/ resumed_session' = resumed_session
             \/ /\ resumed_session = <<>>
                /\ resumed_session' # <<>>
                /\ IsLatestStoredOf(resumed_session'[1], user)]_vars

\* A Start AI Quiz whose model call failed while a quiz was in play with a
\* choice made.
C9_Witness ==
    /\ run.action = "start_quiz"
    /\ run.outcome = "model_failed"
    /\ quiz_questions # <<>>
    /\ \E i \in 1..Len(quiz_questions) : quiz_answers[i] # NoneVal

\* ------------------------------------------------------------------------
\* Store updates
\* ------------------------------------------------------------------------

\* C10: every update issued to the session store is filtered by the session id
\* and by the id of the logged-in user.
C10_UpdatesOwnerScoped ==
    \A i \in 1..Len(store_ops) :
        store_ops[i].op = "update" =>
            /\ store_ops[i].user_filter = user
            /\ resumed_session # <<>>
            /\ store_ops[i].id = resumed_session[1].id

\* ------------------------------------------------------------------------
\* Generate Adaptive Flashcards: the reply's chunks
\* ------------------------------------------------------------------------

\* The run got a non-empty reply for an active session.
AdaptiveGotReply ==
    /\ run.action = "adaptive"
    /\ run.outcome \notin {"no_session", "model_failed"}

\* C11: for any non-empty reply to Generate Adaptive Flashcards every chunk is
\* rendered or skipped and the run proceeds to the save step: it issues the
\* adaptive_data update, also when a chunk holds "A:" more than once.
C11_AdaptiveReplyReachesSave ==
    AdaptiveGotReply =>
        /\ run.outcome \in {"saved", "save_failed"}
        /\ store_ops # <<>>

\* ------------------------------------------------------------------------
\* parse_quiz on arbitrary text
\* ------------------------------------------------------------------------

\* C12: every record parse_quiz returns, for any input text, has exactly 4
\* options and a correct value that is one of A, B, C, D; a block that cannot
\* meet this is dropped.
C12_QuizRecordShape ==
    p_pc = "parsed" =>
        \A i \in 1..Len(p_out) :
            /\ Len(p_out[i].options) = 4
            /\ Len(p_out[i].correct) = 1
            /\ p_out[i].correct[1] \in Letters

\* ------------------------------------------------------------------------
\* Scoring and the quiz in play
\* ------------------------------------------------------------------------

\* The Submit Quiz run got through the scoring loop.
ScoreComputed == run.action = "submit" /\ run.outcome # "crashed"

\* What a computed score looks like: a quiz of at least one question, a score
\* within 0..total, a whole percentage within 0..100, and no other score in
\* the store.
ScoreInRange ==
    /\ ScoreComputed =>
          /\ Len(quiz_questions) >= 1
          /\ run.score \in 0..Len(quiz_questions)
          /\ Percent(run.score, Len(quiz_questions)) \in 0..100
    /\ \A i \in 1..Len(db) : db[i].score = NullScore \/ db[i].score \in 0..100

\* A step that replaces the quiz in play puts a non-empty parsed list there.
ReplacedByParsedQuiz ==
    quiz_questions' # quiz_questions =>
        /\ quiz_questions' # <<>>
        /\ \E r \in QuizReplies : quiz_questions' = parse_quiz(r)
        /\ run'.action = "start_quiz"

\* C13: whenever Submit Quiz computes a score the quiz in play has at least
\* one question, 0 <= score <= total and the percentage is an integer in
\* 0..100; quiz_questions is only ever replaced by a non-empty parsed list.
C13_ScoringNeverSeesEmptyQuiz ==
    [](ScoreInRange) /\ [][ReplacedByParsedQuiz]_vars

\* A submit that scored one of two questions, saved as 50.
C13_Witness ==
    /\ ScoreComputed
    /\ Len(quiz_questions) = 2
    /\ run.score = 1
    /\ \E i \in 1..Len(db) : db[i].score = 50

\* ------------------------------------------------------------------------
\* The active session and the logged-in user
\* ------------------------------------------------------------------------

\* C14: after any sequence of login, logout, generate, resume and auto-pick a
\* non-empty active session has user_id equal to the id of the logged-in
\* user: what quiz and adaptive actions operate on is never another user's
\* session.
C14_ActiveSessionOfCurrentUser ==
    (user # NoUser /\ resumed_session # <<>>) =>
        resumed_session[1].user_id = user

\* C15: after a Submit Quiz whose score update succeeds the active session
\* (resumed_session), which the "Active Session" summary shows, carries that
\* score; the score it shows never differs from the score saved for that
\* session id.
C15_ActiveScoreCurrent ==
    /\ ScoreWritten =>
          /\ resumed_session # <<>>
          /\ resumed_session[1].score = Percent(run.score, Len(quiz_questions))
    /\ (resumed_session # <<>> /\ resumed_session[1].id \in 1..Len(db)) =>
          resumed_session[1].score = db[resumed_session[1].id].score

====
